---- MODULE Spec2Model ----
(***************************************************************************)
(* A model of csv-partial-cache (src/src/lib.rs): the offset line reader   *)
(* LineOffset, the index build CsvPartialCache::new, the lookup find, the  *)
(* lazy fetch full_record and the snapshot cache from_cache.               *)
(*                                                                         *)
(* Bytes are the strings "a" (any content byte), CR, LF and BAD (a byte    *)
(* that makes its line invalid UTF-8, so that read_line fails on it).      *)
(* Positions and offsets are 0-based byte counts, as in the code.          *)
(***************************************************************************)
EXTENDS Integers, Sequences, FiniteSets, TLC

VARIABLES
    it,        \* SpecLines: the LineOffset iterator (its stream included)
    yielded,   \* SpecLines: the item each call of next() returned, in order
    src,       \* the source csv file
    built,     \* SpecNew: what CsvPartialCache::new returned
    cache,     \* the CsvPartialCache: its path and items
    target,    \* SpecFind: the key looked up
    found,     \* SpecFind: what find returned
    snap,      \* SpecCache: the snapshot file
    clock,     \* SpecCache: the file system's current timestamp
    ret,       \* SpecCache: the outcome of the latest from_cache call
    seen,      \* SpecCache: what that call followed
    touched,   \* SpecCache: the source's mtime was set after the snapshot's
    tasks      \* SpecFetch: the full_record calls in flight

linesVars == <<it, yielded>>
findVars == <<target, found>>
snapVars == <<snap, clock, ret, seen, touched>>
vars == <<it, yielded, src, built, cache, target, found, snap, clock, ret, seen,
          touched, tasks>>

----------------------------------------------------------------------------
(* Bounds *)

\* Longest byte stream read by the LineOffset iterator, and longest source
\* file handed to CsvPartialCache::new.
MaxLen == 5
\* Largest value of the caller-chosen Offset type (O::try_from fails above).
OffsetMax == 3
\* Calls of next() followed after the first None.
MaxNone == 2
\* Most items of an index looked up with find, and their largest key.
MaxItems == 4
MaxKey == 3
\* Most lines of a source file of the snapshot cache, the header included,
\* and the last timestamp.
MaxLines == 3
MaxClock == 1

----------------------------------------------------------------------------
(* Bytes and streams *)

LF == "LF"
CR == "CR"
BAD == "BAD"
Byte == {"a", CR, LF, BAD}

SeqsUpTo(S, n) == UNION {[1..k -> S] : k \in 0..n}

Min(a, b) == IF a <= b THEN a ELSE b

\* The part of s from 1-based index m to n (empty when m > n).
Slice(s, m, n) == [i \in 1..(n - m + 1) |-> s[m + i - 1]]

----------------------------------------------------------------------------
(* LineOffset: src/src/lib.rs *)

\* BufRead::read_line at byte position pos: the bytes up to and including
\* the next LF, or up to the end of the stream. It consumes them whether or
\* not they are valid UTF-8, and fails (leaving the String empty) when they
\* are not.
ReadLine(buf, pos) ==
    LET rest == {i \in (pos + 1)..Len(buf) : buf[i] = LF}
        stop == IF rest = {} THEN Len(buf)
                ELSE CHOOSE i \in rest : \A j \in rest : i <= j
        raw  == Slice(buf, pos + 1, stop)
    IN  [n |-> Len(raw), raw |-> raw,
         valid |-> \A i \in 1..Len(raw) : raw[i] # BAD]

EndsWith(line, b) == Len(line) > 0 /\ line[Len(line)] = b

Pop(line) == Slice(line, 1, Len(line) - 1)

\* A mutant of StripTerminator: trims a trailing CR the LF does not follow.
StripTerminatorAnyCR(line) ==
    LET l1 == IF EndsWith(line, LF) THEN Pop(line) ELSE line
    IN  IF EndsWith(l1, CR) THEN Pop(l1) ELSE l1

\* Lines 187-192: pop a trailing LF, then one CR before it.
StripTerminator(line) ==
    IF EndsWith(line, LF)
    THEN LET l1 == Pop(line)
         IN  IF EndsWith(l1, CR) THEN Pop(l1) ELSE l1
    ELSE line

\* O::try_from(u64): fails above the Offset type's maximum.
TryFromOffset(o) == o <= OffsetMax

\* A mutant of NoItem: the end of the stream is a read error.
EndOfStreamIsAnError == [kind |-> "ReadLine", line |-> <<>>, offset |-> 0, index |-> 0]

\* Line 185: Ok(0) => return None.
NoItem == [kind |-> "None", line |-> <<>>, offset |-> 0, index |-> 0]

\* LineOffset::from_buf: index 0, offset 0. seekFail is the set of stream
\* positions at which the stream's stream_position() fails.
FromBuf(bytes, seekFail) ==
    [buf |-> bytes, pos |-> 0, seekFail |-> seekFail, index |-> 0, offset |-> 0]

\* LineOffset::next: the iterator after the call and the item returned.
\* Every early return leaves self.offset as it was; the bytes of the line
\* are consumed all the same.
LineOffsetNext(self) ==
    LET r     == ReadLine(self.buf, self.pos)
        after == [self EXCEPT !.pos = self.pos + r.n]
    IN  IF r.n = 0 THEN [it |-> self, item |-> NoItem]
        ELSE IF ~r.valid
        THEN [it |-> after,
              item |-> [kind |-> "ReadLine", line |-> <<>>, offset |-> 0,
                        index |-> self.index]]
        ELSE IF ~TryFromOffset(self.offset)
        THEN [it |-> after,
              item |-> [kind |-> "IntoOffset", line |-> <<>>,
                        offset |-> self.offset, index |-> self.index]]
        ELSE IF after.pos \in self.seekFail
        THEN [it |-> [after EXCEPT !.index = self.index + 1],
              item |-> [kind |-> "SeekOffset", line |-> <<>>, offset |-> 0,
                        index |-> self.index + 1]]
        ELSE [it |-> [after EXCEPT !.index = self.index + 1,
                                   !.offset = after.pos],
              item |-> [kind |-> "Ok", line |-> StripTerminator(r.raw),
                        offset |-> self.offset, index |-> 0]]

----------------------------------------------------------------------------
(* CsvPartialCache::new: src/src/lib.rs *)

CsvPath == "data.csv"

\* A file: whether it exists (File::open fails when not), its bytes, and the
\* positions at which stream_position() fails on a reader of it.
FileOf(exists, bytes, seekFail) ==
    [exists |-> exists, bytes |-> bytes, seekFail |-> seekFail]

\* T::from_line_offset, the caller's decoder of a partial record: here it
\* keeps the whole line as the record's key beside the offset, and fails on
\* an empty line.
FromLineOffset(line, offset) ==
    IF line = <<>>
    THEN [ok |-> FALSE, rec |-> [key |-> <<>>, offset |-> 0]]
    ELSE [ok |-> TRUE, rec |-> [key |-> line, offset |-> offset]]

Failed(path, err) == [ok |-> FALSE, path |-> path, items |-> <<>>, err |-> err]

\* Lines 236-241: the loop over the rows left after the header. The first
\* reader error or decoder error is returned.
RECURSIVE CollectRows(_, _, _)
CollectRows(path, index, items) ==
    LET row == LineOffsetNext(index)
    IN  IF row.item.kind = "None"
        THEN [ok |-> TRUE, path |-> path, items |-> items, err |-> "none"]
        ELSE IF row.item.kind # "Ok" THEN Failed(path, row.item.kind)
        ELSE LET d == FromLineOffset(row.item.line, row.item.offset)
             IN  IF ~d.ok THEN Failed(path, "CsvLine")
                 ELSE CollectRows(path, row.it, Append(items, d.rec))

\* CsvPartialCache::new on the file f at path. Line 235 calls next() once
\* and drops what it returns, an error item as well.
New(path, f) ==
    IF ~f.exists THEN Failed(path, "OpenFile")
    ELSE LET index == FromBuf(f.bytes, f.seekFail)
         IN  CollectRows(path, LineOffsetNext(index).it, <<>>)

NotCalled == Failed("", "not called")

----------------------------------------------------------------------------
(* CsvPartialCache::find: src/src/lib.rs *)

\* Ord::cmp of an item's projected key with the target.
Cmp(a, b) == IF a < b THEN "Less" ELSE IF a = b THEN "Equal" ELSE "Greater"

\* A mutant of NextBase: moves right only past a smaller key.
NextBaseSkipsEqual(cmp, base, mid) == IF cmp = "Less" THEN mid ELSE base

\* The step of slice::binary_search_by: keep the left half when the middle
\* key is greater than the target, else move to the middle.
NextBase(cmp, base, mid) == IF cmp = "Greater" THEN base ELSE mid

\* The loop of slice::binary_search_by (0-based base, as in Rust; keys is
\* the sequence of projected keys f(item)).
RECURSIVE BinarySearchLoop(_, _, _, _)
BinarySearchLoop(keys, b, base, size) ==
    IF size > 1
    THEN LET half == size \div 2
             mid  == base + half
         IN  BinarySearchLoop(keys, b,
                              NextBase(Cmp(keys[mid + 1], b), base, mid),
                              size - half)
    ELSE base

\* A mutant of BinarySearchByKey: the position the loop ends at is returned
\* as a match without the last comparison.
BinarySearchByKeyUnchecked(keys, b) ==
    IF Len(keys) = 0 THEN [ok |-> FALSE, at |-> 0]
    ELSE [ok |-> TRUE, at |-> BinarySearchLoop(keys, b, 0, Len(keys))]

\* slice::binary_search_by_key: Ok(position) of an equal key, else Err.
BinarySearchByKey(keys, b) ==
    IF Len(keys) = 0 THEN [ok |-> FALSE, at |-> 0]
    ELSE LET base == BinarySearchLoop(keys, b, 0, Len(keys))
             cmp  == Cmp(keys[base + 1], b)
         IN  IF cmp = "Equal" THEN [ok |-> TRUE, at |-> base]
             ELSE [ok |-> FALSE, at |-> base + (IF cmp = "Less" THEN 1 ELSE 0)]

\* The projection f handed to find: the item's key.
KeyOf(item) == item.key

\* CsvPartialCache::find: Some(&items[index]) or None. The reference is
\* modelled by the 1-based position of the item it points to.
Find(self, b) ==
    LET r == BinarySearchByKey([i \in 1..Len(self.items) |-> KeyOf(self.items[i])], b)
    IN  IF r.ok THEN [some |-> TRUE, at |-> r.at + 1]
        ELSE [some |-> FALSE, at |-> 0]

NotSearched == [some |-> FALSE, at |-> -1]

\* find with the projection |item| item.offset().
FindByOffset(self, b) ==
    LET r == BinarySearchByKey([i \in 1..Len(self.items) |-> self.items[i].offset], b)
    IN  IF r.ok THEN [some |-> TRUE, at |-> r.at + 1]
        ELSE [some |-> FALSE, at |-> 0]

----------------------------------------------------------------------------
(* CsvPartialCache::from_cache: src/src/lib.rs *)

CachePath == "data.json"

\* The system calls of from_cache that can fail, one per call at most.
Faults ==
    {"none", "exists", "metadata_csv", "modified_csv", "metadata_cache",
     "modified_cache", "open_csv", "create", "write", "open_cache"}

\* The snapshot's text is a sequence of JSON tokens: an opening bracket, one
\* object per item, a closing bracket.
Token(t, key, offset) == [t |-> t, key |-> key, offset |-> offset]

\* A mutant of ItemToJson: the offset is not written.
ItemToJsonNoOffset(item) == Token("obj", item.key, 0)

\* T's Serialize: the item's fields as a JSON object.
ItemToJson(item) == Token("obj", item.key, item.offset)

\* serde_json::to_writer of the items slice.
ToJson(items) ==
    <<Token("[", <<>>, 0)>> \o [i \in 1..Len(items) |-> ItemToJson(items[i])]
                           \o <<Token("]", <<>>, 0)>>

\* serde_json::from_reader into Vec<T>: an array of objects and nothing
\* after it, else an error.
FromJson(text) ==
    LET n == Len(text)
    IN  IF /\ n >= 2 /\ text[1].t = "[" /\ text[n].t = "]"
           /\ \A i \in 2..(n - 1) : text[i].t = "obj"
        THEN [ok |-> TRUE,
              items |-> [i \in 1..(n - 2) |->
                            [key |-> text[i + 1].key, offset |-> text[i + 1].offset]]]
        ELSE [ok |-> FALSE, items |-> <<>>]

NoSnapshot == [exists |-> FALSE, text |-> <<>>, mtime |-> 0]

\* file_modified_at(path): the file's mtime, or the error of fs::metadata
\* or of Metadata::modified.
FileModifiedAt(path, f, metaFails, modifiedFails) ==
    IF ~f.exists \/ metaFails
    THEN [ok |-> FALSE, err |-> "ReadFileMetadata", path |-> path, mtime |-> 0]
    ELSE IF modifiedFails
    THEN [ok |-> FALSE, err |-> "GetFileModified", path |-> path, mtime |-> 0]
    ELSE [ok |-> TRUE, err |-> "none", path |-> path, mtime |-> f.mtime]

\* A mutant of Older: a snapshot as old as the source counts as older.
OlderOrEqual(cacheModified, csvModified) == cacheModified <= csvModified

\* Line 333: cache_modified < csv_modified.
Older(cacheModified, csvModified) == cacheModified < csvModified

\* is_cache_expired. Path::exists is false as well when the file's metadata
\* cannot be read.
IsCacheExpired(csv, cch, fault) ==
    IF ~cch.exists \/ fault = "exists"
    THEN [ok |-> TRUE, expired |-> TRUE, err |-> "none", path |-> ""]
    ELSE LET csvM == FileModifiedAt(CsvPath, csv, fault = "metadata_csv",
                                    fault = "modified_csv")
             cchM == FileModifiedAt(CachePath, cch, fault = "metadata_cache",
                                    fault = "modified_cache")
         IN  IF ~csvM.ok
             THEN [ok |-> FALSE, expired |-> FALSE, err |-> csvM.err, path |-> csvM.path]
             ELSE IF ~cchM.ok
             THEN [ok |-> FALSE, expired |-> FALSE, err |-> cchM.err, path |-> cchM.path]
             ELSE [ok |-> TRUE, expired |-> Older(cchM.mtime, csvM.mtime),
                   err |-> "none", path |-> ""]

\* items_to_cache: File::create truncates the snapshot, to_writer writes
\* the items; when the write fails after cut tokens the snapshot keeps
\* them. Line 313 reports the failure as ReadCache.
ItemsToCache(items, cch, now, fault, cut) ==
    IF fault = "create"
    THEN [ok |-> FALSE, err |-> "CreateFile", snap |-> cch]
    ELSE IF fault = "write"
    THEN [ok |-> FALSE, err |-> "ReadCache",
          snap |-> [exists |-> TRUE, mtime |-> now,
                    text |-> SubSeq(ToJson(items), 1,
                                    Min(cut, Len(ToJson(items)) - 1))]]
    ELSE [ok |-> TRUE, err |-> "none",
          snap |-> [exists |-> TRUE, mtime |-> now, text |-> ToJson(items)]]

\* A mutant of ItemsFromCache: a snapshot that cannot be parsed counts as
\* an empty one.
ItemsFromCacheLenient(cch, fault) ==
    IF ~cch.exists \/ fault = "open_cache"
    THEN [ok |-> FALSE, err |-> "OpenFile", items |-> <<>>]
    ELSE [ok |-> TRUE, err |-> "none", items |-> FromJson(cch.text).items]

\* items_from_cache.
ItemsFromCache(cch, fault) ==
    IF ~cch.exists \/ fault = "open_cache"
    THEN [ok |-> FALSE, err |-> "OpenFile", items |-> <<>>]
    ELSE LET r == FromJson(cch.text)
         IN  IF r.ok THEN [ok |-> TRUE, err |-> "none", items |-> r.items]
             ELSE [ok |-> FALSE, err |-> "ReadCache", items |-> <<>>]

NoIndex == [path |-> "", items |-> <<>>]

\* The outcome of a from_cache call: Ok or the error and its path, with the
\* branch the call took (rebuild: new and items_to_cache; reuse:
\* items_from_cache; none: is_cache_expired failed).
Outcome(ok, err, path, branch) ==
    [called |-> TRUE, ok |-> ok, err |-> err, path |-> path, branch |-> branch]

NoCall == [called |-> FALSE, ok |-> FALSE, err |-> "none", path |-> "", branch |-> "none"]

\* A mutant of LoadedIndex: the index points at the snapshot.
LoadedIndexAtSnapshot(csvPath, cachePath, items) ==
    [path |-> cachePath, items |-> items]

\* Lines 302-306: Self { path: csv_path, items }.
LoadedIndex(csvPath, cachePath, items) == [path |-> csvPath, items |-> items]

\* CsvPartialCache::from_cache(CsvPath, CachePath) at time now: the
\* snapshot file after the call, whether the call created it anew, the
\* call's outcome and the index returned.
FromCache(csv, cch, now, fault, cut) ==
    LET exp == IsCacheExpired(csv, cch, fault)
    IN  IF ~exp.ok
        THEN [snap |-> cch, wrote |-> FALSE, index |-> NoIndex,
              ret |-> Outcome(FALSE, exp.err, exp.path, "none")]
        ELSE IF exp.expired
        THEN LET idx == New(CsvPath, IF fault = "open_csv"
                                     THEN [csv EXCEPT !.exists = FALSE] ELSE csv)
                 w   == ItemsToCache(idx.items, cch, now, fault, cut)
             IN  IF ~idx.ok
                 THEN [snap |-> cch, wrote |-> FALSE, index |-> NoIndex,
                       ret |-> Outcome(FALSE, idx.err, CsvPath, "rebuild")]
                 ELSE IF ~w.ok
                 THEN [snap |-> w.snap, wrote |-> fault # "create",
                       index |-> NoIndex,
                       ret |-> Outcome(FALSE, w.err, CachePath, "rebuild")]
                 ELSE [snap |-> w.snap, wrote |-> TRUE,
                       index |-> [path |-> idx.path, items |-> idx.items],
                       ret |-> Outcome(TRUE, "none", "", "rebuild")]
        ELSE LET r == ItemsFromCache(cch, fault)
             IN  IF ~r.ok
                 THEN [snap |-> cch, wrote |-> FALSE, index |-> NoIndex,
                       ret |-> Outcome(FALSE, r.err, CachePath, "reuse")]
                 ELSE [snap |-> cch, wrote |-> FALSE,
                       index |-> LoadedIndex(CsvPath, CachePath, r.items),
                       ret |-> Outcome(TRUE, "none", "", "reuse")]

----------------------------------------------------------------------------
(* CsvPartialCache::full_record: src/src/lib.rs *)

\* csv_line::from_str::<D>, the decoder of a full record: here the record
\* keeps the line's text, without the record terminator, and an empty
\* record is a decode error.
FullFromStr(line) ==
    IF StripTerminator(line) = <<>>
    THEN [ok |-> FALSE, text |-> <<>>]
    ELSE [ok |-> TRUE, text |-> StripTerminator(line)]

\* A full_record call: where it is suspended (idle: no call), the item it
\* was given (its position in items), the position of its own file handle,
\* what it returned, and whether it was made while the failure of another
\* call was at hand.
NoResult == [ok |-> FALSE, err |-> "none", text |-> <<>>, line |-> <<>>, offset |-> 0]

Idle ==
    [pc |-> "idle", row |-> 0, pos |-> 0, result |-> NoResult,
     afterFailure |-> FALSE]

TaskFailed(task, err, offset, line) ==
    [task EXCEPT !.pc = "done",
                 !.result = [ok |-> FALSE, err |-> err, text |-> <<>>,
                             line |-> line, offset |-> offset]]

\* row.offset().into(): the item's offset as u64.
OffsetOf(self, task) == self.items[task.row].offset

\* A mutant of SeekTo: the calls share one file position.
SeekToShared(ts, t, offset) ==
    [u \in DOMAIN ts |->
        IF u = t THEN [ts[u] EXCEPT !.pos = offset, !.pc = "read"]
        ELSE IF ts[u].pc \in {"seek", "read"} THEN [ts[u] EXCEPT !.pos = offset]
        ELSE ts[u]]

\* Lines 266-268: f.seek(SeekFrom::Start(offset)) moves the call's handle.
SeekTo(ts, t, offset) == [ts EXCEPT ![t].pos = offset, ![t].pc = "read"]

\* Lines 269-285: read_line on the call's handle, then the decoding of the
\* line read (terminator included) into the full record.
ReadAndDecode(self, f, task, readFails) ==
    LET r      == ReadLine(f.bytes, task.pos)
        offset == OffsetOf(self, task)
        d      == FullFromStr(r.raw)
    IN  IF readFails \/ ~r.valid
        THEN TaskFailed(task, "ReadLineOffset", offset, <<>>)
        ELSE IF ~d.ok
        THEN [TaskFailed(task, "DecodeDetails", offset, r.raw)
                  EXCEPT !.pos = task.pos + r.n]
        ELSE [task EXCEPT !.pc = "done", !.pos = task.pos + r.n,
                          !.result = [ok |-> TRUE, err |-> "none", text |-> d.text,
                                      line |-> r.raw, offset |-> offset]]

----------------------------------------------------------------------------
(* SpecLines: a LineOffset iterator over any stream, called repeatedly *)

\* The streams: any bytes, and stream_position() failing at no position or
\* at one.
SeekFails(n) == {{}} \cup {{p} : p \in 1..n}

Unused == <<>>

NoneCount == Cardinality({k \in 1..Len(yielded) : yielded[k].kind = "None"})

InitLines ==
    /\ it \in {FromBuf(b, sf) : b \in SeqsUpTo(Byte, MaxLen), sf \in SeekFails(MaxLen)}
    /\ yielded = <<>>
    /\ src = Unused
    /\ built = Unused
    /\ cache = Unused
    /\ target = Unused
    /\ found = Unused
    /\ snap = Unused
    /\ clock = Unused
    /\ ret = Unused
    /\ seen = Unused
    /\ touched = Unused
    /\ tasks = Unused

\* One call of next() on the iterator.
CallNext ==
    /\ NoneCount <= MaxNone
    /\ LET r == LineOffsetNext(it)
       IN  /\ it' = r.it
           /\ yielded' = Append(yielded, r.item)
    /\ UNCHANGED <<src, built, cache, findVars, snapVars, tasks>>

NextLines == CallNext

SpecLines == InitLines /\ [][NextLines]_vars

----------------------------------------------------------------------------
(* The lines of a byte stream, stated without the reader *)

\* The byte positions at which a line starts: 0, and after every LF that is
\* not the last byte.
LineStarts(bytes) ==
    {p \in 0..(Len(bytes) - 1) : p = 0 \/ bytes[p] = LF}

NumLines(bytes) == Cardinality(LineStarts(bytes))

\* The start of the k-th line (k from 1): the byte lengths of the k-1 lines
\* before it, terminators included, added up.
NthStart(bytes, k) ==
    CHOOSE p \in LineStarts(bytes) :
        Cardinality({q \in LineStarts(bytes) : q < p}) = k - 1

\* The bytes of the k-th line, terminator included.
RawLine(bytes, k) ==
    Slice(bytes, NthStart(bytes, k) + 1,
          IF k < NumLines(bytes) THEN NthStart(bytes, k + 1) ELSE Len(bytes))

\* A raw line without its terminator, LF or CR LF.
Text(raw) ==
    LET n == Len(raw)
    IN  IF n >= 2 /\ raw[n - 1] = CR /\ raw[n] = LF THEN Slice(raw, 1, n - 2)
        ELSE IF n >= 1 /\ raw[n] = LF THEN Slice(raw, 1, n - 1)
        ELSE raw

Readable(raw) == \A i \in 1..Len(raw) : raw[i] # BAD

\* The calls of next() that returned an Ok item, in order.
OkCalls == {k \in 1..Len(yielded) : yielded[k].kind = "Ok"}

\* The call that returned the i-th Ok item.
NthOkCall(i) ==
    CHOOSE k \in OkCalls : Cardinality({j \in OkCalls : j < k}) = i - 1

----------------------------------------------------------------------------
(* C1 *)

\* C1: the i-th pair the iterator yields carries the offset that is the sum
\* of the byte lengths of the i-1 preceding lines of the stream, terminators
\* included; the first offset is 0. Stated for the streams whose
\* stream_position() never fails.
C1_OffsetIsSumOfPrecedingLines ==
    it.seekFail = {} =>
        \A i \in 1..Cardinality(OkCalls) :
            yielded[NthOkCall(i)].offset = NthStart(it.buf, i)

\* The same with the pair matched to the line it holds (the k-th call reads
\* the k-th line): not an invariant either.
OffsetIsStartOfItsLine ==
    \A k \in OkCalls : yielded[k].offset = NthStart(it.buf, k)

\* What does hold: the offsets are exact up to the first error item.
NoErrorYet(k) == \A j \in 1..k : yielded[j].kind \in {"Ok", "None"}

OffsetsExactBeforeAnError ==
    \A k \in OkCalls : NoErrorYet(k) => yielded[k].offset = NthStart(it.buf, k)

----------------------------------------------------------------------------
(* C2 *)

\* C2: every line yielded is the line read without its terminator: a
\* trailing LF is removed and a CR right before it too; any other CR, and
\* every other byte, stays.
C2_TerminatorStripped ==
    \A k \in OkCalls : yielded[k].line = Text(RawLine(it.buf, k))

\* Witness: a line ending in CR CR LF (one CR stays) was yielded, and then
\* an unterminated last line ending in CR (it stays).
C2_Witness ==
    \E j, k \in OkCalls :
        /\ j < k
        /\ RawLine(it.buf, j) = <<CR, CR, LF>> /\ yielded[j].line = <<CR>>
        /\ RawLine(it.buf, k) = <<"a", CR>> /\ yielded[k].line = <<"a", CR>>

----------------------------------------------------------------------------
(* C3 *)

\* C3: a line whose true start offset exceeds the Offset type's maximum
\* yields an IntoOffset error (read here for the lines that can be read at
\* all), and every offset in an Ok item is the true offset of its line,
\* never a truncated, wrapped or otherwise different value. Stated for the
\* streams whose stream_position() never fails.
C3_OverflowIsAnError ==
    it.seekFail = {} =>
        \A k \in 1..Len(yielded) :
            /\ (/\ k <= NumLines(it.buf)
                /\ NthStart(it.buf, k) > OffsetMax
                /\ Readable(RawLine(it.buf, k)))
               => yielded[k].kind = "IntoOffset"
            /\ yielded[k].kind = "Ok" => yielded[k].offset = NthStart(it.buf, k)

\* What does hold: the same up to the first ReadLine or SeekOffset error.
NoStaleOffset(k) ==
    \A j \in 1..(k - 1) : yielded[j].kind \notin {"ReadLine", "SeekOffset"}

OverflowIsAnErrorBeforeAStaleOffset ==
    \A k \in 1..Len(yielded) :
        NoStaleOffset(k) =>
            /\ (/\ k <= NumLines(it.buf)
                /\ NthStart(it.buf, k) > OffsetMax
                /\ Readable(RawLine(it.buf, k)))
               => yielded[k].kind = "IntoOffset"
            /\ yielded[k].kind = "Ok" => yielded[k].offset = NthStart(it.buf, k)

----------------------------------------------------------------------------
(* C12 *)

ErrorKinds == {"ReadLine", "IntoOffset", "SeekOffset"}

\* C12: once next() has yielded an error item, every later call of next()
\* yields None: an error ends the sequence with exactly one error item.
C12_ErrorEndsTheSequence ==
    \A j, k \in 1..Len(yielded) :
        (j < k /\ yielded[j].kind \in ErrorKinds) => yielded[k].kind = "None"

\* What does hold: the call after an error item goes on with the bytes
\* after the failed line, and returns None only at the end of the stream.
ErrorDoesNotEndTheSequence ==
    \A k \in 2..Len(yielded) :
        yielded[k - 1].kind \in ErrorKinds
        => (yielded[k].kind = "None" <=> k > NumLines(it.buf))

----------------------------------------------------------------------------
(* C15 *)

\* The Ok items yielded before the k-th call.
OkBefore(k) == Cardinality({j \in OkCalls : j < k})

\* C15: every error item carries as its line index the number of Ok items
\* yielded before it.
C15_ErrorIndexCountsOkItems ==
    \A k \in 1..Len(yielded) :
        yielded[k].kind \in ErrorKinds => yielded[k].index = OkBefore(k)

\* What does hold: a ReadLine or IntoOffset error carries the number of
\* lines that passed the offset conversion before it, the lines of
\* SeekOffset errors included, and a SeekOffset error that number plus one.
PassedBefore(k) ==
    Cardinality({j \in 1..(k - 1) : yielded[j].kind \in {"Ok", "SeekOffset"}})

ErrorIndexCountsPassedLines ==
    \A k \in 1..Len(yielded) :
        /\ yielded[k].kind \in {"ReadLine", "IntoOffset"}
           => yielded[k].index = PassedBefore(k)
        /\ yielded[k].kind = "SeekOffset"
           => yielded[k].index = PassedBefore(k) + 1

----------------------------------------------------------------------------
(* C19 *)

\* C19: the end of the stream is not an error and is stable: the k-th call
\* of next() yields None exactly when the stream has fewer than k lines, the
\* calls after a None included; so new on a file of no line or of the header
\* line alone returns Ok with no items.
C19_EndOfStreamIsStable ==
    /\ \A k \in 1..Len(yielded) :
           yielded[k] = NoItem <=> k > NumLines(it.buf)
    /\ NumLines(it.buf) <= 1
       => New(CsvPath, FileOf(TRUE, it.buf, it.seekFail))
              = [ok |-> TRUE, path |-> CsvPath, items |-> <<>>, err |-> "none"]

\* Witness: next() was called three times on a stream of the header line
\* alone: the line, then None twice.
C19_Witness ==
    /\ NumLines(it.buf) = 1
    /\ Len(yielded) = 3
    /\ yielded[1].kind = "Ok" /\ yielded[2] = NoItem /\ yielded[3] = NoItem

----------------------------------------------------------------------------
(* SpecNew: CsvPartialCache::new on any source file *)

InitNew ==
    /\ src \in {FileOf(TRUE, b, sf) : b \in SeqsUpTo(Byte, MaxLen),
                                      sf \in SeekFails(MaxLen)}
              \cup {FileOf(FALSE, <<>>, {})}
    /\ built = NotCalled
    /\ it = Unused
    /\ yielded = Unused
    /\ cache = Unused
    /\ target = Unused
    /\ found = Unused
    /\ snap = Unused
    /\ clock = Unused
    /\ ret = Unused
    /\ seen = Unused
    /\ touched = Unused
    /\ tasks = Unused

CallNew ==
    /\ built = NotCalled
    /\ built' = New(CsvPath, src)
    /\ UNCHANGED <<src, linesVars, cache, findVars, snapVars, tasks>>

NextNew == CallNew

SpecNew == InitNew /\ [][NextNew]_vars

\* The data lines of the file: all but the first.
DataLines(bytes) == 2..NumLines(bytes)

\* What the decoder returns for the k-th line of the file and its offset.
Decoded(bytes, k) == FromLineOffset(Text(RawLine(bytes, k)), NthStart(bytes, k))

----------------------------------------------------------------------------
(* C4 *)

\* C4: when new succeeds on a file of n >= 1 lines, items has n-1 elements
\* and items[i] is the decoder's result for the text of line i+1 and the
\* byte offset of that line in the file; the header is not decoded. Stated
\* for the files whose stream_position() never fails.
C4_ItemsAreTheDataLines ==
    (/\ built.ok
     /\ src.seekFail = {}
     /\ NumLines(src.bytes) >= 1)
    => /\ Len(built.items) = NumLines(src.bytes) - 1
       /\ \A k \in DataLines(src.bytes) :
              built.items[k - 1] = Decoded(src.bytes, k).rec

\* What does hold: the same for the files whose header line can be read.
ItemsAreTheDataLinesUnderAReadableHeader ==
    (/\ built.ok
     /\ src.seekFail = {}
     /\ NumLines(src.bytes) >= 1
     /\ Readable(RawLine(src.bytes, 1)))
    => /\ Len(built.items) = NumLines(src.bytes) - 1
       /\ \A k \in DataLines(src.bytes) :
              built.items[k - 1] = Decoded(src.bytes, k).rec

----------------------------------------------------------------------------
(* C5 *)

\* The reader fails on line k: it cannot be read, or its offset does not fit
\* the Offset type.
ReaderFailsOn(bytes, k) ==
    \/ ~Readable(RawLine(bytes, k))
    \/ NthStart(bytes, k) > OffsetMax

\* C5: new returns an error whenever the reader fails on a line of the
\* file, the header included, or the decoder fails on a data line. Stated
\* for the files whose stream_position() never fails.
C5_AnyErrorAbortsTheBuild ==
    (/\ built # NotCalled
     /\ src.exists /\ src.seekFail = {}
     /\ \/ \E k \in 1..NumLines(src.bytes) : ReaderFailsOn(src.bytes, k)
        \/ \E k \in DataLines(src.bytes) : ~Decoded(src.bytes, k).ok)
    => ~built.ok

\* What does hold: the same for the data lines alone, under a header line
\* that can be read.
AnyDataLineErrorAbortsTheBuild ==
    (/\ built # NotCalled
     /\ src.exists /\ src.seekFail = {}
     /\ NumLines(src.bytes) >= 1 /\ Readable(RawLine(src.bytes, 1))
     /\ \/ \E k \in DataLines(src.bytes) : ReaderFailsOn(src.bytes, k)
        \/ \E k \in DataLines(src.bytes) : ~Decoded(src.bytes, k).ok)
    => ~built.ok

----------------------------------------------------------------------------
(* SpecFind: find on any index, sorted by key or not, and any target *)

\* The items of an index with the keys ks: the i-th one holds offset i, so
\* that items of equal key differ.
ItemsOf(ks) == [i \in 1..Len(ks) |-> [key |-> ks[i], offset |-> i]]

InitFind ==
    /\ cache \in {[path |-> CsvPath, items |-> ItemsOf(ks)] :
                     ks \in SeqsUpTo(1..MaxKey, MaxItems)}
    /\ target \in 0..(MaxKey + 1)
    /\ found = NotSearched
    /\ it = Unused
    /\ yielded = Unused
    /\ src = Unused
    /\ built = Unused
    /\ snap = Unused
    /\ clock = Unused
    /\ ret = Unused
    /\ seen = Unused
    /\ touched = Unused
    /\ tasks = Unused

CallFind ==
    /\ found = NotSearched
    /\ found' = Find(cache, target)
    /\ UNCHANGED <<cache, target, linesVars, src, built, snapVars, tasks>>

NextFind == CallFind

SpecFind == InitFind /\ [][NextFind]_vars

SortedByKey(items) ==
    \A i, j \in 1..Len(items) : i < j => KeyOf(items[i]) <= KeyOf(items[j])

Holders(items, b) == {i \in 1..Len(items) : KeyOf(items[i]) = b}

----------------------------------------------------------------------------
(* C6 *)

\* C6: on items sorted ascending by the projection, find returns an element
\* whose key equals the target when there is one (one of them when there
\* are several), and None when there is none.
C6_FindOnSortedItems ==
    (found # NotSearched /\ SortedByKey(cache.items))
    => IF Holders(cache.items, target) # {}
       THEN found.some /\ found.at \in Holders(cache.items, target)
       ELSE ~found.some

\* Witness: find returned one of two items of equal key, in a sorted index
\* that also holds a smaller and a greater key.
C6_Witness ==
    /\ found # NotSearched /\ found.some
    /\ SortedByKey(cache.items)
    /\ Cardinality(Holders(cache.items, target)) = 2
    /\ \E i, j \in 1..Len(cache.items) :
          KeyOf(cache.items[i]) < target /\ target < KeyOf(cache.items[j])

----------------------------------------------------------------------------
(* SpecCache: from_cache calls on a source file that is touched, appended   *)
(* to and truncated as the file system's clock advances                     *)

\* The lines of the source files of SpecCache: a line the decoder accepts
\* and one it rejects.
FileLine == {<<"a", LF>>, <<LF>>}

RECURSIVE Concat(_)
Concat(ls) == IF ls = <<>> THEN <<>> ELSE Head(ls) \o Concat(Tail(ls))

SourceBytes == {Concat(ls) : ls \in SeqsUpTo(FileLine, MaxLines)}

SourceOf(bytes, mtime) ==
    [exists |-> TRUE, bytes |-> bytes, seekFail |-> {}, mtime |-> mtime]

\* What a from_cache call followed: the source's mtime at the call before
\* it (-1: no call yet), and whether this call, free of faults, came right
\* after a successful rebuild with the source's mtime unchanged since.
NothingSeen == [srcMtime |-> -1, second |-> FALSE]

InitCache ==
    /\ src \in {SourceOf(b, 0) : b \in SourceBytes}
              \cup {[exists |-> FALSE, bytes |-> <<>>, seekFail |-> {}, mtime |-> 0]}
    /\ snap = NoSnapshot
    /\ clock = 0
    /\ ret = NoCall
    /\ seen = NothingSeen
    /\ cache = NoIndex
    /\ touched = FALSE
    /\ tasks = Unused
    /\ it = Unused
    /\ yielded = Unused
    /\ built = Unused
    /\ target = Unused
    /\ found = Unused

\* The file system's timestamp advances.
Tick ==
    /\ clock < MaxClock
    /\ clock' = clock + 1
    /\ UNCHANGED <<src, snap, ret, seen, cache, touched, linesVars, built, findVars, tasks>>

\* touch(1) on the source file: its mtime becomes the current timestamp.
TouchSource ==
    /\ src.exists
    /\ src' = [src EXCEPT !.mtime = clock]
    /\ touched' = snap.exists
    /\ UNCHANGED <<snap, clock, ret, seen, cache, linesVars, built, findVars, tasks>>

\* A line is appended to the source file (which is created if missing).
AppendSource(line) ==
    /\ NumLines(src.bytes) < MaxLines
    /\ src' = SourceOf(src.bytes \o line, clock)
    /\ touched' = snap.exists
    /\ UNCHANGED <<snap, clock, ret, seen, cache, linesVars, built, findVars, tasks>>

\* The source file is truncated to no bytes.
TruncateSource ==
    /\ src.exists /\ src.bytes # <<>>
    /\ src' = SourceOf(<<>>, clock)
    /\ touched' = snap.exists
    /\ UNCHANGED <<snap, clock, ret, seen, cache, linesVars, built, findVars, tasks>>

\* The call after a call with outcome r and the source's mtime m then.
RoundTrip(r, m, fault) ==
    /\ fault = "none"
    /\ r.called /\ r.ok /\ r.branch = "rebuild"
    /\ src.exists /\ src.mtime = m

\* The branch a call takes when no system call fails.
Expired == ~snap.exists \/ (src.exists /\ Older(snap.mtime, src.mtime))

\* The faults a call can meet: those of the system calls it makes.
Reachable(fault) ==
    \/ fault = "none"
    \/ fault \in {"exists", "metadata_csv", "modified_csv", "metadata_cache",
                  "modified_cache"} /\ snap.exists
    \/ fault \in {"open_csv", "create", "write"} /\ Expired
    \/ fault = "open_cache" /\ ~Expired

\* A call of from_cache, in which at most one system call fails.
CallFromCache(fault, cut) ==
    /\ Reachable(fault)
    /\ cut = 0 \/ fault = "write"
    /\ LET r == FromCache(src, snap, clock, fault, cut)
       IN  /\ snap' = r.snap
           /\ ret' = r.ret
           /\ cache' = r.index
           /\ touched' = (touched /\ ~r.wrote)
    /\ seen' = [srcMtime |-> IF src.exists THEN src.mtime ELSE -1,
                second |-> RoundTrip(ret, seen.srcMtime, fault)]
    /\ UNCHANGED <<src, clock, linesVars, built, findVars, tasks>>

NextCache ==
    \/ Tick
    \/ TouchSource
    \/ \E line \in FileLine : AppendSource(line)
    \/ TruncateSource
    \/ \E f \in Faults, c \in 0..MaxLines : CallFromCache(f, c)

SpecCache == InitCache /\ [][NextCache]_vars

----------------------------------------------------------------------------
(* C7 *)

\* C7: a from_cache call takes the rebuild branch exactly when the snapshot
\* does not exist or its mtime is not strictly newer than the source's
\* (older or equal), and reuses the snapshot only when it is strictly newer.
\* Stated for the calls in which no system call fails.
C7_ExpiredUnlessStrictlyNewer ==
    [][(CallFromCache("none", 0) /\ ret'.branch # "none")
       => (ret'.branch = "rebuild"
              <=> (~snap.exists \/ ~(snap.mtime > src.mtime)))]_vars

\* What does hold: the snapshot is expired exactly when it does not exist or
\* is strictly older than the source.
ExpiredWhenStrictlyOlder ==
    [][(CallFromCache("none", 0) /\ ret'.branch # "none")
       => (ret'.branch = "rebuild"
              <=> (~snap.exists \/ snap.mtime < src.mtime))]_vars

----------------------------------------------------------------------------
(* C8 *)

\* C8: a from_cache call free of faults that comes right after a call that
\* rebuilt the index and wrote the snapshot, the source's mtime unchanged,
\* takes the reuse branch (it does not call new, so the source is not
\* parsed and the decoder not invoked) and returns the items of the first
\* call, element for element.
C8_RoundTrip ==
    [][(RoundTrip(ret, seen.srcMtime, "none") /\ CallFromCache("none", 0))
       => /\ ret'.ok /\ ret'.branch = "reuse"
          /\ cache'.path = cache.path
          /\ Len(cache'.items) = Len(cache.items)
          /\ \A i \in 1..Len(cache.items) : cache'.items[i] = cache.items[i]
          /\ snap' = snap]_vars

\* Witness: such a second call returned an index of two items, after the
\* clock had advanced past the source's mtime.
C8_Witness ==
    /\ seen.second /\ ret.ok
    /\ Len(cache.items) >= 2
    /\ snap.mtime > src.mtime

----------------------------------------------------------------------------
(* C9 *)

\* C9: once a snapshot was written and the source's mtime was then updated,
\* the next from_cache call rebuilds: it parses the source, returns the
\* index of the source's current content and overwrites the snapshot with
\* it. Stated for the calls in which no system call fails.
C9_TouchForcesRebuild ==
    [][(touched /\ CallFromCache("none", 0))
       => /\ ret'.branch = "rebuild"
          /\ ret'.ok => /\ cache'.items = New(CsvPath, src).items
                         /\ snap'.text = ToJson(New(CsvPath, src).items)]_vars

\* What does hold: the same when the source's mtime was set to a timestamp
\* later than the snapshot's.
LaterTouchForcesRebuild ==
    [][(touched /\ src.mtime > snap.mtime /\ CallFromCache("none", 0))
       => /\ ret'.branch = "rebuild"
          /\ ret'.ok => /\ cache'.items = New(CsvPath, src).items
                         /\ snap'.text = ToJson(New(CsvPath, src).items)]_vars

----------------------------------------------------------------------------
(* C11 *)

\* C11: every index from_cache returns, rebuilt from the source or loaded
\* from the snapshot, has the source csv path as its path, never the
\* snapshot's, so that details_line opens the source file.
C11_IndexPointsAtTheSource ==
    (ret.called /\ ret.ok)
    => cache.path = CsvPath /\ cache.path # CachePath

\* Witness: an index of two items was loaded from the snapshot.
C11_Witness ==
    /\ ret.called /\ ret.ok /\ ret.branch = "reuse"
    /\ Len(cache.items) >= 2
    /\ cache.path = CsvPath

----------------------------------------------------------------------------
(* C13 *)

\* A snapshot text that is not a complete array: empty, or cut before the
\* closing bracket.
Partial(text) == text = <<>> \/ text[Len(text)].t # "]"

\* C13: a from_cache call free of faults that finds a partial snapshot and
\* judges it fresh returns the deserialization error with the snapshot's
\* path and does not fall back to a rebuild: it takes the reuse branch (new
\* is not called, so the source is not parsed), returns no index and leaves
\* the snapshot file as it was.
C13_CorruptFreshSnapshotIsAnError ==
    [][(/\ snap.exists /\ src.exists
        /\ Partial(snap.text)
        /\ ~(snap.mtime < src.mtime)
        /\ CallFromCache("none", 0))
       => /\ ~ret'.ok /\ ret'.err = "ReadCache" /\ ret'.path = CachePath
          /\ ret'.branch = "reuse"
          /\ cache' = NoIndex
          /\ snap' = snap]_vars

\* Witness: such a call found a snapshot cut after its first item.
C13_Witness ==
    /\ ret.called /\ ~ret.ok /\ ret.err = "ReadCache" /\ ret.branch = "reuse"
    /\ snap.exists /\ Partial(snap.text) /\ Len(snap.text) = 2
    /\ src.exists /\ ~(snap.mtime < src.mtime)

----------------------------------------------------------------------------
(* C14 *)

\* The call reaches the system call that fault makes fail.
Hit(fault) ==
    \/ fault \in {"metadata_csv", "modified_csv"} /\ snap.exists /\ src.exists
    \/ fault \in {"metadata_cache", "modified_cache"} /\ snap.exists /\ src.exists
    \/ fault = "open_csv" /\ Expired
    \/ fault \in {"create", "write"} /\ Expired /\ New(CsvPath, src).ok
    \/ fault = "open_cache" /\ ~Expired /\ src.exists

\* The path the failing system call was given.
OffendingPath(fault) ==
    IF fault \in {"metadata_csv", "modified_csv", "open_csv"} THEN CsvPath
    ELSE CachePath

\* The error kind of each failure mode; writeKind is the kind of a failed
\* serialization.
KindOf(fault, writeKind) ==
    CASE fault \in {"metadata_csv", "metadata_cache"} -> "ReadFileMetadata"
      [] fault \in {"modified_csv", "modified_cache"} -> "GetFileModified"
      [] fault \in {"open_csv", "open_cache"} -> "OpenFile"
      [] fault = "create" -> "CreateFile"
      [] fault = "write" -> writeKind

FailureModes == Faults \ {"none", "exists"}

\* Every failure mode is returned as its error kind, with the offending
\* path, and a snapshot that cannot be parsed as ReadCache.
FailuresReportedWith(writeKind) ==
    /\ \A f \in FailureModes, c \in 0..MaxLines :
           (Hit(f) /\ CallFromCache(f, c))
           => /\ ~ret'.ok
              /\ ret'.err = KindOf(f, writeKind)
              /\ ret'.path = OffendingPath(f)
    /\ (/\ snap.exists /\ src.exists /\ ~Expired /\ Partial(snap.text)
        /\ CallFromCache("none", 0))
       => ~ret'.ok /\ ret'.err = "ReadCache" /\ ret'.path = CachePath

\* C14: each failure mode of from_cache is returned as its own error kind
\* with the offending path; a failed serialization of the snapshot is a
\* WriteCache error, a failed deserialization a ReadCache error.
C14_EachFailureHasItsKind == [][FailuresReportedWith("WriteCache")]_vars

\* What does hold: the same with a failed serialization returned as
\* ReadCache, the kind of a failed deserialization.
WriteFailureIsAReadCacheError == [][FailuresReportedWith("ReadCache")]_vars

----------------------------------------------------------------------------
(* C17 *)

\* C17: a from_cache call that returns an error leaves the snapshot file as
\* it was before the call, content and modification time.
C17_FailedCallLeavesTheSnapshot ==
    [][\A f \in Faults, c \in 0..MaxLines :
          (CallFromCache(f, c) /\ ~ret'.ok) => snap' = snap]_vars

\* The case the claim is after, not an invariant either: a snapshot written
\* in full is not replaced by a partial one in a call that returns an error.
FullSnapshotSurvivesAFailedCall ==
    [][\A f \in Faults, c \in 0..MaxLines :
          (/\ snap.exists /\ ~Partial(snap.text)
           /\ CallFromCache(f, c) /\ ~ret'.ok)
          => ~Partial(snap'.text)]_vars

\* What does hold: every failed call but one whose snapshot write fails
\* leaves the snapshot file as it was.
FailedCallLeavesTheSnapshotUnlessWriting ==
    [][\A f \in Faults \ {"write"}, c \in 0..MaxLines :
          (CallFromCache(f, c) /\ ~ret'.ok) => snap' = snap]_vars

----------------------------------------------------------------------------
(* C18 *)

\* C18: on any items, sorted or not, and any target, find returns None or
\* an element of items whose key equals the target (find's unwrap of
\* items.get(index) does not panic: the position is one of items).
C18_FindNeverReturnsAnotherKey ==
    (found # NotSearched /\ found.some)
    => /\ found.at \in 1..Len(cache.items)
       /\ KeyOf(cache.items[found.at]) = target

\* Witness: find returned an item of the target's key from items that are
\* not sorted, in which another item of that key was passed over.
C18_Witness ==
    /\ found # NotSearched /\ found.some
    /\ ~SortedByKey(cache.items)
    /\ KeyOf(cache.items[found.at]) = target
    /\ Cardinality(Holders(cache.items, target)) >= 2

\* In unsorted items a key that is there can be reported as not found.
PresentKeyIsFound ==
    (found # NotSearched /\ Holders(cache.items, target) # {}) => found.some

----------------------------------------------------------------------------
(* SpecFetch: concurrent full_record calls on an index of an unmodified     *)
(* source file                                                              *)

Task == {"t1", "t2"}

\* The lines of the source files of SpecFetch.
FetchLine == {<<"a", LF>>, <<LF>>, <<"a", CR, LF>>, <<BAD, LF>>, <<"a">>}

FetchBytes == {Concat(ls) : ls \in SeqsUpTo(FetchLine, MaxLines)}

\* The index is the one new built from the source file.
InitFetch ==
    /\ src \in {FileOf(TRUE, b, {}) : b \in FetchBytes}
    /\ New(CsvPath, src).ok
    /\ New(CsvPath, src).items # <<>>
    /\ cache = [path |-> CsvPath, items |-> New(CsvPath, src).items]
    /\ tasks = [t \in Task |-> Idle]
    /\ found = NotSearched
    /\ it = Unused
    /\ yielded = Unused
    /\ built = Unused
    /\ target = Unused
    /\ snap = Unused
    /\ clock = Unused
    /\ ret = Unused
    /\ seen = Unused
    /\ touched = Unused

fetchFrame == <<src, cache, linesVars, built, findVars, snapVars>>

\* full_record(&items[i]) is called.
CallFullRecord(t, i) ==
    /\ tasks[t].pc = "idle"
    /\ tasks' = [tasks EXCEPT ![t] =
                    [Idle EXCEPT !.pc = "open", !.row = i,
                                 !.afterFailure =
                                     \E u \in Task : /\ tasks[u].pc = "done"
                                                     /\ ~tasks[u].result.ok]]
    /\ UNCHANGED fetchFrame

\* find(&b, |item| item.offset()) is called.
FindOffset(b) ==
    /\ found' = FindByOffset(cache, b)
    /\ UNCHANGED <<src, cache, linesVars, built, target, snapVars, tasks>>

\* A mutant of OpenFile: a failed open invalidates the index.
OpenFileInvalidatesIndex(t, fails) ==
    /\ tasks[t].pc = "open"
    /\ tasks' = [tasks EXCEPT ![t] =
                    IF fails \/ ~src.exists
                    THEN TaskFailed(@, "OpenFile", 0, <<>>)
                    ELSE [@ EXCEPT !.pc = "seek", !.pos = 0]]
    /\ cache' = IF fails \/ ~src.exists THEN [cache EXCEPT !.path = ""] ELSE cache
    /\ UNCHANGED <<src, linesVars, built, findVars, snapVars>>

\* Lines 262-264: File::open(&self.path), a handle of the call's own.
OpenFile(t, fails) ==
    /\ tasks[t].pc = "open"
    /\ tasks' = [tasks EXCEPT ![t] =
                    IF fails \/ ~src.exists
                    THEN TaskFailed(@, "OpenFile", 0, <<>>)
                    ELSE [@ EXCEPT !.pc = "seek", !.pos = 0]]
    /\ UNCHANGED fetchFrame

\* Lines 265-268.
SeekOffset(t, fails) ==
    /\ tasks[t].pc = "seek"
    /\ tasks' = IF fails
                THEN [tasks EXCEPT ![t] = TaskFailed(@, "Seek", 0, <<>>)]
                ELSE SeekTo(tasks, t, OffsetOf(cache, tasks[t]))
    /\ UNCHANGED fetchFrame

\* Lines 269-285.
ReadLineAt(t, fails) ==
    /\ tasks[t].pc = "read"
    /\ tasks' = [tasks EXCEPT ![t] = ReadAndDecode(cache, src, @, fails)]
    /\ UNCHANGED fetchFrame

\* The caller takes the result.
Return(t) ==
    /\ tasks[t].pc = "done"
    /\ tasks' = [tasks EXCEPT ![t] = Idle]
    /\ UNCHANGED fetchFrame

NextFetch ==
    \/ \E t \in Task, i \in 1..Len(cache.items) : CallFullRecord(t, i)
    \/ \E t \in Task, fails \in BOOLEAN : OpenFile(t, fails)
    \/ \E t \in Task, fails \in BOOLEAN : SeekOffset(t, fails)
    \/ \E t \in Task, fails \in BOOLEAN : ReadLineAt(t, fails)
    \/ \E t \in Task : Return(t)
    \/ \E b \in 0..OffsetMax : FindOffset(b)

SpecFetch == InitFetch /\ [][NextFetch]_vars

\* The line of the file that starts at byte offset o, terminator included.
LineStartingAt(bytes, o) ==
    RawLine(bytes, CHOOSE k \in 1..NumLines(bytes) : NthStart(bytes, k) = o)

----------------------------------------------------------------------------
(* C10 *)

\* What a call returned is the decoding of exactly the line of the source
\* file that starts at its record's stored offset (a decode error names
\* that line).
FetchedLineIsTheLineAtTheOffset ==
    \A t \in Task :
        (tasks[t].pc = "done"
            /\ (tasks[t].result.ok \/ tasks[t].result.err = "DecodeDetails"))
        => LET o   == cache.items[tasks[t].row].offset
               raw == LineStartingAt(src.bytes, o)
           IN  /\ o \in LineStarts(src.bytes)
               /\ tasks[t].result.offset = o
               /\ tasks[t].result.line = raw
               /\ tasks[t].result.ok = FullFromStr(raw).ok
               /\ tasks[t].result.text = FullFromStr(raw).text

\* A read that meets no I/O fault, on a line that is valid UTF-8, returns
\* the decoding and not a read error, whatever the other calls are doing.
ReadOfAReadableLineDecodes ==
    \A t \in Task :
        (/\ tasks[t].pc = "read"
         /\ Readable(LineStartingAt(src.bytes, cache.items[tasks[t].row].offset))
         /\ ReadLineAt(t, FALSE))
        => tasks'[t].result.err # "ReadLineOffset"

\* C10: on an unmodified source file, under every interleaving of the
\* full_record calls in flight, a call returns the decoding of exactly the
\* line that starts at its record's stored offset: no call's seek or read
\* changes the line another call obtains.
C10_FetchReturnsTheLineAtTheOffset ==
    /\ []FetchedLineIsTheLineAtTheOffset
    /\ [][ReadOfAReadableLineDecodes]_vars

\* Witness: a call returned its line, of another offset, while another call
\* was suspended between its seek and its read.
C10_Witness ==
    \E t, u \in Task :
        /\ tasks[t].pc = "done" /\ tasks[t].result.ok
        /\ tasks[u].pc = "read"
        /\ tasks[u].pos # tasks[t].result.offset
        /\ tasks[t].result.line = <<"a", CR, LF>>

----------------------------------------------------------------------------
(* C16 *)

\* The index is as new built it.
IndexAsBuilt ==
    /\ cache.path = CsvPath
    /\ cache.items = New(CsvPath, src).items

\* What full_record returns for an item of offset o when no I/O of the
\* call fails.
FetchOf(bytes, o) ==
    LET raw == LineStartingAt(bytes, o)
    IN  IF ~Readable(raw)
        THEN [ok |-> FALSE, err |-> "ReadLineOffset", text |-> <<>>,
              line |-> <<>>, offset |-> o]
        ELSE IF Text(raw) = <<>>
        THEN [ok |-> FALSE, err |-> "DecodeDetails", text |-> <<>>,
              line |-> raw, offset |-> o]
        ELSE [ok |-> TRUE, err |-> "none", text |-> Text(raw),
              line |-> raw, offset |-> o]

\* A call that meets no I/O failure of its own returns what the file holds
\* at its record's offset, whatever calls failed before it or beside it.
OwnFailuresOnly ==
    \A t \in Task :
        (tasks[t].pc = "read" /\ ReadLineAt(t, FALSE))
        => tasks'[t].result = FetchOf(src.bytes, cache.items[tasks[t].row].offset)

\* C16: find and full_record leave the index unchanged: after any find calls
\* and full_record calls, failed at open, seek, read or decode or not, path
\* and items are as at construction, and the failure of a call does not
\* change what a later or concurrent call returns.
C16_CallsLeaveTheIndexUnchanged ==
    /\ []IndexAsBuilt
    /\ [][cache' = cache]_vars
    /\ [][OwnFailuresOnly]_vars

\* Witness: after a find, a call made while the failure of another call
\* was at hand returned its record.
C16_Witness ==
    /\ found # NotSearched /\ found.some
    /\ \E t, u \in Task :
          /\ tasks[t].pc = "done" /\ tasks[t].result.ok /\ tasks[t].afterFailure
          /\ tasks[u].pc = "done" /\ ~tasks[u].result.ok
          /\ tasks[u].row = tasks[t].row

====
